---------------------------- MODULE Spec2Model ----------------------------
(***************************************************************************)
(* GodotEnvironment (godot_interface): the reset / step / close session    *)
(* that drives a Godot simulation process over one TCP connection.         *)
(*                                                                         *)
(* The session is single-threaded and blocking.  Each public call is a     *)
(* sequence of steps; pc is the position inside the running call and a     *)
(* step that blocks (accept, recv, Popen.wait) is enabled only once the    *)
(* simulation has done its part.  An exception ends the call where it is   *)
(* raised and leaves the fields as they are at that point.                 *)
(*                                                                         *)
(* The simulation is the environment: it connects to the listening         *)
(* socket, answers every Init / Action request with one Response and       *)
(* exits on a Terminate request.                                           *)
(*                                                                         *)
(* Rewards are numbers; the quotient reward / n_frames is kept as a        *)
(* reduced fraction <<numerator, denominator>>.  The "state" payload of an *)
(* agent is opaque to the session and is left out of the agent records.    *)
(*                                                                         *)
(* Spec is the session with every call; SpecStep is reset and step with    *)
(* every Response.  In both a Response is received whole.  SpecRecv is the *)
(* receive routine alone, at the level of bytes: the three copies of       *)
(* _wait_and_receive_states_data and recv_msg, each reading one Response   *)
(* that recv returns in chunks of any size, alone in the stream or with    *)
(* the start of the next one behind it.  SpecScenario is one session with  *)
(* seed 42, a headless reset and steps of one agent named Plane.  SpecSeed *)
(* is Spec with set_seed called between the calls.                         *)
(***************************************************************************)
EXTENDS Integers, Sequences, FiniteSets, TLC

\* ------------------------------------------------------------------ bounds
MaxAgents == 2      \* agents listed in one Response
MaxReward == 2      \* rewards received are 0..MaxReward
MaxFrames == 2      \* n_frames received is 0..MaxFrames
MaxSteps  == 2      \* step calls accepted while the accumulator is this long
MaxDraws  == 2      \* seeds drawn from the session's generator

\* randint(low=0, high=1e6): the seeds drawn are 0 .. SeedHigh - 1
SeedHigh == 1000000

\* ----------------------------------------------------------------- values
None == "None"

AgentNames == {"A", "B"}

\* The "metrics" entry of an agent of a Response: the key may be absent, and
\* the object may lack "region" or "misc".
MetricsValues ==
  { [present |-> FALSE, region |-> 0, misc |-> 0],
    [present |-> TRUE,  region |-> 0, misc |-> 0],
    [present |-> TRUE,  region |-> 1, misc |-> 0],
    [present |-> TRUE,  region |-> 1, misc |-> 1] }

NoMetrics == [present |-> FALSE, region |-> 0, misc |-> 0]

\* Only the first agent's metrics are read by step; the others carry none.
FirstAgents == [name : AgentNames, reward : 0..MaxReward, metrics : MetricsValues]
OtherAgents == [name : AgentNames, reward : 0..MaxReward, metrics : {NoMetrics}]

RECURSIVE AgentLists(_)
AgentLists(n) ==
  IF n = 0 THEN { <<>> }
  ELSE IF n = 1 THEN { <<a>> : a \in FirstAgents }
  ELSE { Append(s, a) : s \in AgentLists(n - 1), a \in OtherAgents }

StatesData == UNION { AgentLists(n) : n \in 0..MaxAgents }

\* A Response of the simulation, as parsed by _format_states_data.
Responses == [states_data : StatesData, n_frames : 0..MaxFrames, done : BOOLEAN]

\* The Responses of the lifecycle specification: one agent, with and without
\* its metrics, a zero and a non-zero frame count, done or not.
LifecycleResponses ==
  { [states_data |-> << [name |-> "A", reward |-> MaxReward, metrics |-> m] >>,
     n_frames |-> n, done |-> d] :
      m \in { NoMetrics, [present |-> TRUE, region |-> 1, misc |-> 1] },
      n \in { 0, MaxFrames },
      d \in BOOLEAN }

NoResponse == [states_data |-> <<>>, n_frames |-> 0, done |-> FALSE]

NoResult ==
  [status |-> "none", err |-> "", states |-> <<>>, rewards |-> <<>>,
   done |-> FALSE, n_frames |-> 0]

\* A Python dictionary is the sequence of its entries in insertion order;
\* a list is the sequence of its items. Every value carries its JSON type.
Entry(k, t, v) == [key |-> k, type |-> t, value |-> v]

Item(t, v) == [type |-> t, value |-> v]

\* An optional argument is <<>> (None) or << value >>.
\* reset's seed argument
SeedArgs == { <<>>, << 5 >> }

\* reset's params argument: None, or the dictionary {"p": 1}
ParamsArgs == { <<>>, << << Entry("p", "int", 1) >> >> }

\* {"name": n, "action": a}
ActionDatum(n, a) ==
  Item("dict", << Entry("name", "str", n), Entry("action", "int", a) >>)

\* step's actions_data argument: a list of {"name": ..., "action": ...}
ActionsArgs ==
  { << ActionDatum("A", 2) >>,
    << ActionDatum("A", 0), ActionDatum("B", 1) >> }

\* the seed the session is constructed with
SessionSeeds == { 7, 42 }

RECURSIVE GCD(_, _)
GCD(a, b) == IF b = 0 THEN a ELSE GCD(b, a % b)

VARIABLES
  socket,             \* self.socket: None, "created" (unbound) or "listening"
  client_socket,      \* self.client_socket: None or "open"
  godot_process,      \* self.godot_process: None, or the state of the process it names
  is_godot_launched,  \* self.is_godot_launched
  is_rendering,       \* self.is_rendering
  metrics,            \* self.metrics: the episode accumulator
  random_generator,   \* self.random_generator: its seed and the number of draws made
  command,            \* the command line of the last Popen
  pc,                 \* position inside the running public call, "idle" between calls
  op,                 \* the public call that runs or ran last
  render,             \* reset's render argument
  seed,               \* reset's seed argument
  params,             \* reset's params argument
  actions_data,       \* step's actions_data argument
  after_done,         \* the call before this one was a step that returned done = true
  env_data,           \* the Response received by the running call
  request,            \* the request dictionary built by the running call
  sent,               \* the bytes the running call gave to sendall
  result,             \* what the last finished call returned or raised
  events,             \* what the running (or last) call has done, in order
  pre,                \* the session fields when the call started
  pre_metrics,        \* the accumulator when the running step started
  closed,             \* a public close() has returned
  simConn,            \* the simulation's side of the connection: "none", "queued", "connected"
  toSim,              \* requests sent and not yet read by the simulation
  toSession,          \* responses sent and not yet read by the session
  outstanding,        \* Init / Action requests sent whose Response is not yet received
  receiver,           \* the receive routine under study: "build", "package", "script", "recv_msg"
  message,            \* the text of the Response the simulation is sending
  trailer,            \* the bytes the simulation sends right after it
  pending,            \* the bytes of the two that no recv has returned yet
  peer_closed,        \* the simulation has closed its end of the connection
  total_data,         \* total_data of _wait_and_receive_states_data
  states_data,        \* the text _wait_and_receive_states_data returns
  data,               \* data of recvall
  msglen,             \* msglen of recv_msg
  rx_pc,              \* where the receive routine is
  decoded,            \* what the receive routine ended with
  eof_at              \* where the routine was when recv first returned b''

vars == << socket, client_socket, godot_process, is_godot_launched, is_rendering,
           metrics, random_generator, command, pc, op, render, seed, params,
           actions_data, after_done, env_data, request, sent, result, events,
           pre, pre_metrics, closed, simConn, toSim, toSession, outstanding, receiver,
           message, trailer, pending, peer_closed, total_data, states_data, data, msglen,
           rx_pc, decoded, eof_at >>

session == << socket, client_socket, godot_process, is_godot_launched,
              is_rendering, metrics, command >>
call    == << op, render, seed, params, actions_data, after_done, pre, pre_metrics >>
sim     == << simConn, toSim, toSession >>
receive == << receiver, message, trailer, pending, peer_closed, total_data, states_data,
              data, msglen, rx_pc, decoded, eof_at >>
driver  == << session, call, sim, random_generator, pc, env_data, request, sent,
              result, events, closed, outstanding >>

Fields ==
  [socket |-> socket, client_socket |-> client_socket,
   godot_process |-> godot_process, is_godot_launched |-> is_godot_launched,
   is_rendering |-> is_rendering]

Count(e) == Cardinality({ i \in DOMAIN events : events[i] = e })

First(e) == IF \E i \in DOMAIN events : events[i] = e
            THEN CHOOSE i \in DOMAIN events :
                   events[i] = e /\ \A j \in DOMAIN events : events[j] = e => i <= j
            ELSE 0

\* __init__
InitSession ==
  /\ socket = None
  /\ client_socket = None
  /\ godot_process = None
  /\ is_godot_launched = FALSE
  /\ is_rendering = TRUE
  /\ metrics = [regions |-> <<>>, misc |-> <<>>]
  /\ \E s \in SessionSeeds : random_generator = [seed |-> s, draws |-> 0]
  /\ command = ""
  /\ pc = "idle"
  /\ op = "none"
  /\ render = TRUE
  /\ seed = <<>>
  /\ params = <<>>
  /\ actions_data = <<>>
  /\ after_done = FALSE
  /\ env_data = NoResponse
  /\ request = <<>>
  /\ sent = <<>>
  /\ result = NoResult
  /\ events = <<>>
  /\ pre = [socket |-> None, client_socket |-> None, godot_process |-> None,
            is_godot_launched |-> FALSE, is_rendering |-> TRUE]
  /\ pre_metrics = [regions |-> <<>>, misc |-> <<>>]
  /\ closed = FALSE
  /\ simConn = "none"
  /\ toSim = <<>>
  /\ toSession = <<>>
  /\ outstanding = 0

\* no receive routine is under study
ReceiveIdle ==
  /\ receiver = "build"
  /\ message = <<>>
  /\ trailer = <<>>
  /\ pending = <<>>
  /\ peer_closed = FALSE
  /\ total_data = <<>>
  /\ states_data = <<>>
  /\ data = <<>>
  /\ msglen = 0
  /\ rx_pc = "idle"
  /\ decoded = "none"
  /\ eof_at = "none"

Init == InitSession /\ ReceiveIdle

\* An exception leaves the call: the caller sees the error, the fields stay.
Raise(kind) ==
  /\ pc' = "idle"
  /\ result' = [NoResult EXCEPT !.status = "error", !.err = kind]

Log(e) == events' = Append(events, e)

\* ------------------------------------------------------ callers' entries
\* the call that has just ended was a step that returned done = true
StepReturnedDone == op = "step" /\ result.status = "ok" /\ result.done

CallReset(r, sd, pr) ==
  /\ pc = "idle"
  /\ sd = <<>> => random_generator.draws < MaxDraws
  /\ pc' = "reset_change"
  /\ op' = "reset"
  /\ render' = r
  /\ seed' = sd
  /\ params' = pr
  /\ actions_data' = <<>>
  /\ after_done' = StepReturnedDone
  /\ pre' = Fields
  /\ pre_metrics' = [regions |-> <<>>, misc |-> <<>>]
  /\ events' = <<>>
  /\ env_data' = NoResponse
  /\ request' = <<>>
  /\ sent' = <<>>
  /\ result' = NoResult
  /\ UNCHANGED << session, random_generator, closed, sim, outstanding >>
  /\ UNCHANGED receive

CallStep(a) ==
  /\ pc = "idle"
  /\ Len(metrics.regions) < MaxSteps
  /\ pc' = "step_send"
  /\ op' = "step"
  /\ actions_data' = a
  /\ after_done' = StepReturnedDone
  /\ pre' = Fields
  /\ pre_metrics' = metrics
  /\ events' = <<>>
  /\ env_data' = NoResponse
  /\ request' = <<>>
  /\ sent' = <<>>
  /\ result' = NoResult
  /\ UNCHANGED << session, random_generator, render, seed, params, closed, sim,
                  outstanding >>
  /\ UNCHANGED receive

CallClose ==
  /\ pc = "idle"
  /\ pc' = "close_send"
  /\ op' = "close"
  /\ after_done' = StepReturnedDone
  /\ pre' = Fields
  /\ pre_metrics' = [regions |-> <<>>, misc |-> <<>>]
  /\ events' = <<>>
  /\ env_data' = NoResponse
  /\ request' = <<>>
  /\ sent' = <<>>
  /\ result' = NoResult
  /\ UNCHANGED << session, random_generator, render, seed, params, actions_data,
                  closed, sim, outstanding >>
  /\ UNCHANGED receive

\* ------------------------------------------------------ data formatting
\* randint(low=0, high=1e6) on the session's generator: the value is fixed by
\* the generator's seed and by the number of draws already made
Draw(generator) ==
  (generator.seed * 7919 + generator.draws * 104729 + 1) % SeedHigh

Randint == Draw(random_generator)

\* _format_actions_data: every action is already a plain int
FormatActionsData(actions) == actions

\* CreateRequest putting a seed in every request
CreateRequestSeedAlways(initialization, termination, actions, seed_arg, params_arg) ==
  << Entry("initialization", "bool", initialization),
     Entry("seed", "int", IF seed_arg = <<>> THEN Randint ELSE seed_arg[1]) >>
  \o (IF initialization /\ params_arg # <<>>
      THEN << Entry("params", "dict", params_arg[1]) >>
      ELSE <<>>)
  \o << Entry("termination", "bool", termination),
        Entry("render", "bool", is_rendering) >>
  \o (IF initialization = FALSE /\ termination = FALSE
      THEN << Entry("actions_data", "list", FormatActionsData(actions)) >>
      ELSE <<>>)

\* _create_request: the request dictionary before json.dumps
CreateRequest(initialization, termination, actions, seed_arg, params_arg) ==
  << Entry("initialization", "bool", initialization) >>
  \o (IF initialization
      THEN << Entry("seed", "int",
                    IF seed_arg = <<>> THEN Randint ELSE seed_arg[1]) >>
           \o (IF params_arg # <<>>
               THEN << Entry("params", "dict", params_arg[1]) >>
               ELSE <<>>)
      ELSE <<>>)
  \o << Entry("termination", "bool", termination),
        Entry("render", "bool", is_rendering) >>
  \o (IF initialization = FALSE /\ termination = FALSE
      THEN << Entry("actions_data", "list", FormatActionsData(actions)) >>
      ELSE <<>>)

\* the generator after _create_request
GeneratorAfter(initialization, seed_arg) ==
  IF initialization /\ seed_arg = <<>>
  THEN [random_generator EXCEPT !.draws = @ + 1]
  ELSE random_generator

\* request[k] and k in request
Has(req, k) == \E i \in DOMAIN req : req[i].key = k

Value(req, k) ==
  LET i == CHOOSE n \in DOMAIN req : req[n].key = k
  IN  req[i].value

\* the ASCII bytes of the strings the requests are made of
Ascii(s) ==
  CASE s = "initialization" -> << 105, 110, 105, 116, 105, 97, 108, 105, 122, 97, 116, 105, 111, 110 >>
    [] s = "seed" -> << 115, 101, 101, 100 >>
    [] s = "params" -> << 112, 97, 114, 97, 109, 115 >>
    [] s = "termination" -> << 116, 101, 114, 109, 105, 110, 97, 116, 105, 111, 110 >>
    [] s = "render" -> << 114, 101, 110, 100, 101, 114 >>
    [] s = "actions_data" -> << 97, 99, 116, 105, 111, 110, 115, 95, 100, 97, 116, 97 >>
    [] s = "name" -> << 110, 97, 109, 101 >>
    [] s = "action" -> << 97, 99, 116, 105, 111, 110 >>
    [] s = "p" -> << 112 >>
    [] s = "A" -> << 65 >>
    [] s = "B" -> << 66 >>
    [] s = "true" -> << 116, 114, 117, 101 >>
    [] s = "false" -> << 102, 97, 108, 115, 101 >>
    [] s = "null" -> << 110, 117, 108, 108 >>
    [] s = "Plane" -> << 80, 108, 97, 110, 101 >>
    [] s = "states_data" -> << 115, 116, 97, 116, 101, 115, 95, 100, 97, 116, 97 >>
    [] s = "agents_data" -> << 97, 103, 101, 110, 116, 115, 95, 100, 97, 116, 97 >>

RECURSIVE Digits(_)
Digits(n) ==
  IF n < 10 THEN << 48 + n >> ELSE Digits(n \div 10) \o << 48 + (n % 10) >>

\* json.dumps(request).encode(): separators ", " and ": ", no length prefix
RECURSIVE DumpsValue(_, _)
RECURSIVE DumpsEntries(_)
RECURSIVE DumpsItems(_)
DumpsValue(t, v) ==
  CASE t = "bool" -> IF v THEN Ascii("true") ELSE Ascii("false")
    [] t = "int"  -> Digits(v)
    [] t = "str"  -> << 34 >> \o Ascii(v) \o << 34 >>
    [] t = "dict" -> << 123 >> \o DumpsEntries(v) \o << 125 >>
    [] t = "list" -> << 91 >> \o DumpsItems(v) \o << 93 >>

DumpsEntries(es) ==
  IF es = <<>>
  THEN <<>>
  ELSE << 34 >> \o Ascii(Head(es).key) \o << 34, 58, 32 >>
       \o DumpsValue(Head(es).type, Head(es).value)
       \o (IF Len(es) > 1 THEN << 44, 32 >> \o DumpsEntries(Tail(es)) ELSE <<>>)

DumpsItems(is) ==
  IF is = <<>>
  THEN <<>>
  ELSE DumpsValue(Head(is).type, Head(is).value)
       \o (IF Len(is) > 1 THEN << 44, 32 >> \o DumpsItems(Tail(is)) ELSE <<>>)

Dumps(req) == DumpsValue("dict", req)

\* Command that never appends the headless flags
CommandAlwaysRendering ==
  "godot --main-pack env"

\* the command line of _launch_simulation_if_needed
Command ==
  IF ~is_rendering
  THEN "godot --main-pack env --disable-render-loop --no-window"
  ELSE "godot --main-pack env"

\* ---------------------------------------------------------------- reset
\* ChangeRenderTypeIfNeeded that only records the new render flag
ChangeRenderTypeOnly ==
  /\ pc = "reset_change"
  /\ pc' = "chg_set"
  /\ UNCHANGED << session, call, env_data, result, events, closed, sim, outstanding >>
  /\ UNCHANGED << random_generator, request, sent >>
  /\ UNCHANGED receive

\* _change_render_type_if_needed, the test and _initialize_socket
ChangeRenderTypeIfNeeded ==
  /\ pc = "reset_change"
  /\ IF (render # is_rendering) /\ is_godot_launched
     THEN /\ pc' = "chg_bind"
          /\ IF socket = None
             THEN socket' = "created" /\ Log("socket")
             ELSE UNCHANGED << socket, events >>
     ELSE /\ pc' = "chg_set"
          /\ UNCHANGED << socket, events >>
  /\ UNCHANGED << client_socket, godot_process, is_godot_launched, is_rendering,
                  metrics, command, call, env_data, result, closed, sim, outstanding >>
  /\ UNCHANGED << random_generator, request, sent >>
  /\ UNCHANGED receive

\* _change_render_type_if_needed, its last line
SetRenderType ==
  /\ pc = "chg_set"
  /\ is_rendering' = render
  /\ pc' = "reset_launch"
  /\ UNCHANGED << socket, client_socket, godot_process, is_godot_launched, metrics,
                  command, call, env_data, result, events, closed, sim, outstanding >>
  /\ UNCHANGED << random_generator, request, sent >>
  /\ UNCHANGED receive

\* LaunchSimulationIfNeeded starting a process whether or not one is running
LaunchSimulationAlways ==
  /\ pc = "reset_launch"
  /\ pc' = "reset_socket"
  /\ command' = Command
  /\ godot_process' = "running"
  /\ is_godot_launched' = TRUE
  /\ simConn' = "none"
  /\ Log("launch")
  /\ UNCHANGED << socket, client_socket, is_rendering, metrics, call, env_data,
                  result, closed, toSim, toSession, outstanding >>
  /\ UNCHANGED << random_generator, request, sent >>
  /\ UNCHANGED receive

\* _launch_simulation_if_needed
LaunchSimulationIfNeeded ==
  /\ pc = "reset_launch"
  /\ pc' = "reset_socket"
  /\ IF ~is_godot_launched
     THEN /\ command' = Command
          /\ godot_process' = "running"
          /\ is_godot_launched' = TRUE
          /\ simConn' = "none"
          /\ Log("launch")
     ELSE UNCHANGED << command, godot_process, is_godot_launched, simConn, events >>
  /\ UNCHANGED << socket, client_socket, is_rendering, metrics, call, env_data,
                  result, closed, toSim, toSession, outstanding >>
  /\ UNCHANGED << random_generator, request, sent >>
  /\ UNCHANGED receive

\* reset: "if self.socket is None: self._initialize_socket()"
InitializeSocketIfNone ==
  /\ pc = "reset_socket"
  /\ IF socket = None
     THEN socket' = "created" /\ Log("socket") /\ pc' = "reset_bind"
     ELSE pc' = "reset_send" /\ UNCHANGED << socket, events >>
  /\ UNCHANGED << client_socket, godot_process, is_godot_launched, is_rendering,
                  metrics, command, call, env_data, result, closed, sim, outstanding >>
  /\ UNCHANGED << random_generator, request, sent >>
  /\ UNCHANGED receive

\* _wait_for_connection: setsockopt, bind, listen.  bind on a socket that is
\* already bound raises OSError (EINVAL); bind on a fresh socket raises OSError
\* when the address is in use.
BindListen ==
  /\ pc \in {"chg_bind", "reset_bind"}
  /\ IF socket = "listening"
     THEN /\ Log("rebind")
          /\ Raise("OSError")
          /\ UNCHANGED socket
     ELSE \/ /\ socket' = "listening"
             /\ events' = events \o << "bind", "listen" >>
             /\ pc' = IF pc = "chg_bind" THEN "chg_accept" ELSE "reset_accept"
             /\ UNCHANGED result
          \/ /\ Log("bind_refused")
             /\ Raise("OSError")
             /\ UNCHANGED socket
  /\ UNCHANGED << client_socket, godot_process, is_godot_launched, is_rendering,
                  metrics, command, call, env_data, closed, sim, outstanding >>
  /\ UNCHANGED << random_generator, request, sent >>
  /\ UNCHANGED receive

\* _wait_for_connection: accept, which blocks until the simulation has connected
Accept ==
  /\ pc \in {"chg_accept", "reset_accept"}
  /\ simConn = "queued"
  /\ simConn' = "connected"
  /\ client_socket' = "open"
  /\ Log("accept")
  /\ pc' = IF pc = "chg_accept" THEN "close_send" ELSE "reset_send"
  /\ UNCHANGED << socket, godot_process, is_godot_launched, is_rendering, metrics,
                  command, call, env_data, result, closed, toSim, toSession, outstanding >>
  /\ UNCHANGED << random_generator, request, sent >>
  /\ UNCHANGED receive

\* ResetSend drawing the seed from the generator whatever the caller gave
ResetSendOwnSeed ==
  /\ pc = "reset_send"
  /\ request' = CreateRequest(TRUE, FALSE, <<>>, <<>>, params)
  /\ random_generator' = GeneratorAfter(TRUE, <<>>)
  /\ IF client_socket = None
     THEN /\ Raise("AttributeError")
          /\ UNCHANGED << toSim, outstanding, events, sent >>
     ELSE /\ sent' = Dumps(request')
          /\ toSim' = Append(toSim, request')
          /\ outstanding' = outstanding + 1
          /\ Log("send_Init")
          /\ pc' = "reset_recv"
          /\ UNCHANGED result
  /\ UNCHANGED << session, call, env_data, closed, simConn, toSession >>
  /\ UNCHANGED receive

\* reset: the Init request
ResetSend ==
  /\ pc = "reset_send"
  /\ request' = CreateRequest(TRUE, FALSE, <<>>, seed, params)
  /\ random_generator' = GeneratorAfter(TRUE, seed)
  /\ IF client_socket = None
     THEN /\ Raise("AttributeError")
          /\ UNCHANGED << toSim, outstanding, events, sent >>
     ELSE /\ sent' = Dumps(request')
          /\ toSim' = Append(toSim, request')
          /\ outstanding' = outstanding + 1
          /\ Log("send_Init")
          /\ pc' = "reset_recv"
          /\ UNCHANGED result
  /\ UNCHANGED << session, call, env_data, closed, simConn, toSession >>
  /\ UNCHANGED receive

\* GetEnvironmentState on a non-blocking socket: it goes on with or without
\* the Response
GetEnvironmentStateNoWait ==
  /\ pc \in {"reset_recv", "step_recv"}
  /\ IF toSession # <<>>
     THEN /\ env_data' = Head(toSession)
          /\ toSession' = Tail(toSession)
          /\ outstanding' = outstanding - 1
     ELSE UNCHANGED << env_data, toSession, outstanding >>
  /\ Log("recv")
  /\ pc' = IF pc = "reset_recv" THEN "reset_return" ELSE "step_process"
  /\ UNCHANGED << session, call, result, closed, simConn, toSim >>
  /\ UNCHANGED << random_generator, request, sent >>
  /\ UNCHANGED receive

\* _get_environment_state: blocks until the Response is there
GetEnvironmentState ==
  /\ pc \in {"reset_recv", "step_recv"}
  /\ toSession # <<>>
  /\ env_data' = Head(toSession)
  /\ toSession' = Tail(toSession)
  /\ outstanding' = outstanding - 1
  /\ Log("recv")
  /\ pc' = IF pc = "reset_recv" THEN "reset_return" ELSE "step_process"
  /\ UNCHANGED << session, call, result, closed, simConn, toSim >>
  /\ UNCHANGED << random_generator, request, sent >>
  /\ UNCHANGED receive

\* Names listing the agents from the last to the first
NamesReversed(agents) ==
  [i \in DOMAIN agents |-> agents[Len(agents) + 1 - i].name]

\* the "name" entries of a list of agents, in order
Names(agents) == [i \in DOMAIN agents |-> agents[i].name]

\* reset: the accumulator is emptied and the states are returned
ResetReturn ==
  /\ pc = "reset_return"
  /\ metrics' = [regions |-> <<>>, misc |-> <<>>]
  /\ result' = [NoResult EXCEPT !.status = "ok", !.states = Names(env_data.states_data)]
  /\ pc' = "idle"
  /\ UNCHANGED << socket, client_socket, godot_process, is_godot_launched,
                  is_rendering, command, call, env_data, events, closed, sim,
                  outstanding >>
  /\ UNCHANGED << random_generator, request, sent >>
  /\ UNCHANGED receive

\* ---------------------------------------------------------------- close
\* close: the Terminate request
CloseSend ==
  /\ pc = "close_send"
  /\ request' = CreateRequest(FALSE, TRUE, <<>>, <<>>, <<>>)
  /\ random_generator' = GeneratorAfter(FALSE, <<>>)
  /\ IF client_socket = None
     THEN /\ Raise("AttributeError")
          /\ UNCHANGED << toSim, events, sent >>
     ELSE /\ sent' = Dumps(request')
          /\ toSim' = Append(toSim, request')
          /\ Log("send_Terminate")
          /\ pc' = "close_end"
          /\ UNCHANGED result
  /\ UNCHANGED << session, call, env_data, closed, simConn, toSession, outstanding >>
  /\ UNCHANGED receive

\* _end_connection forgetting the listening socket only
EndConnectionSocketOnly ==
  /\ pc = "close_end"
  /\ IF socket = None
     THEN /\ Raise("AttributeError")
          /\ UNCHANGED << socket, client_socket, events >>
     ELSE /\ socket' = None
          /\ UNCHANGED client_socket
          /\ Log("sock_close")
          /\ pc' = "close_wait"
          /\ UNCHANGED result
  /\ UNCHANGED << godot_process, is_godot_launched, is_rendering, metrics, command,
                  call, env_data, closed, sim, outstanding >>
  /\ UNCHANGED << random_generator, request, sent >>
  /\ UNCHANGED receive

\* _end_connection
EndConnection ==
  /\ pc = "close_end"
  /\ IF socket = None
     THEN /\ Raise("AttributeError")
          /\ UNCHANGED << socket, client_socket, events >>
     ELSE /\ socket' = None
          /\ client_socket' = None
          /\ Log("sock_close")
          /\ pc' = "close_wait"
          /\ UNCHANGED result
  /\ UNCHANGED << godot_process, is_godot_launched, is_rendering, metrics, command,
                  call, env_data, closed, sim, outstanding >>
  /\ UNCHANGED << random_generator, request, sent >>
  /\ UNCHANGED receive

\* ProcessWait with poll() in place of wait(): it does not block
ProcessWaitNoBlock ==
  /\ pc = "close_wait"
  /\ IF godot_process = None
     THEN /\ Raise("AttributeError")
          /\ UNCHANGED events
     ELSE /\ Log("wait")
          /\ pc' = "close_clear"
          /\ UNCHANGED result
  /\ UNCHANGED << session, call, env_data, closed, sim, outstanding >>
  /\ UNCHANGED << random_generator, request, sent >>
  /\ UNCHANGED receive

\* close: self.godot_process.wait(), which blocks until the process has exited
ProcessWait ==
  /\ pc = "close_wait"
  /\ IF godot_process = None
     THEN /\ Raise("AttributeError")
          /\ UNCHANGED events
     ELSE /\ godot_process = "exited"
          /\ Log("wait")
          /\ pc' = "close_clear"
          /\ UNCHANGED result
  /\ UNCHANGED << session, call, env_data, closed, sim, outstanding >>
  /\ UNCHANGED << random_generator, request, sent >>
  /\ UNCHANGED receive

\* CloseClearFlag without the assignment to is_godot_launched
CloseKeepFlag ==
  /\ pc = "close_clear"
  /\ Log("clear")
  /\ IF op = "reset"
     THEN pc' = "chg_set" /\ UNCHANGED << result, closed >>
     ELSE /\ pc' = "idle"
          /\ result' = [NoResult EXCEPT !.status = "ok"]
          /\ closed' = TRUE
  /\ UNCHANGED << session, call, env_data, sim, outstanding >>
  /\ UNCHANGED << random_generator, request, sent >>
  /\ UNCHANGED receive

\* close: self.is_godot_launched = False, and the return (to reset when close
\* was called by _change_render_type_if_needed)
CloseClearFlag ==
  /\ pc = "close_clear"
  /\ is_godot_launched' = FALSE
  /\ Log("clear")
  /\ IF op = "reset"
     THEN pc' = "chg_set" /\ UNCHANGED << result, closed >>
     ELSE /\ pc' = "idle"
          /\ result' = [NoResult EXCEPT !.status = "ok"]
          /\ closed' = TRUE
  /\ UNCHANGED << socket, client_socket, godot_process, is_rendering, metrics,
                  command, call, env_data, sim, outstanding >>
  /\ UNCHANGED << random_generator, request, sent >>
  /\ UNCHANGED receive

\* StepSend writing to the simulation whatever client_socket is
StepSendUnchecked ==
  /\ pc = "step_send"
  /\ request' = CreateRequest(FALSE, FALSE, actions_data, <<>>, <<>>)
  /\ random_generator' = GeneratorAfter(FALSE, <<>>)
  /\ sent' = Dumps(request')
  /\ toSim' = Append(toSim, request')
  /\ outstanding' = outstanding + 1
  /\ Log("send_Action")
  /\ pc' = "step_recv"
  /\ UNCHANGED << session, call, env_data, result, closed, simConn, toSession >>
  /\ UNCHANGED receive

\* ----------------------------------------------------------------- step
\* step: the Action request
StepSend ==
  /\ pc = "step_send"
  /\ request' = CreateRequest(FALSE, FALSE, actions_data, <<>>, <<>>)
  /\ random_generator' = GeneratorAfter(FALSE, <<>>)
  /\ IF client_socket = None
     THEN /\ Raise("AttributeError")
          /\ UNCHANGED << toSim, outstanding, events, sent >>
     ELSE /\ sent' = Dumps(request')
          /\ toSim' = Append(toSim, request')
          /\ outstanding' = outstanding + 1
          /\ Log("send_Action")
          /\ pc' = "step_recv"
          /\ UNCHANGED result
  /\ UNCHANGED << session, call, env_data, closed, simConn, toSession >>
  /\ UNCHANGED receive

\* Quotient with floor division (//=) in place of true division (/=)
QuotientFloor(reward, n_frames) ==
  << reward \div n_frames, 1 >>

\* reward / n_frames for n_frames > 0, as a reduced fraction
Quotient(reward, n_frames) ==
  LET g == GCD(reward, n_frames)
  IN  << reward \div g, n_frames \div g >>

\* _split_env_data, the rewards list, after the scaling loop of step
ScaledRewards(agents, n_frames) ==
  [i \in DOMAIN agents |->
     [name |-> agents[i].name, reward |-> Quotient(agents[i].reward, n_frames)]]

\* RecordMetrics keeping only the metrics of the last step
RecordMetricsOverwrite(m) ==
  [regions |-> << m.region >>,
   misc    |-> IF m.misc # 0 THEN << m.misc >> ELSE <<>>]

\* step: the accumulator after the metrics of the first agent are recorded
RecordMetrics(m) ==
  [regions |-> Append(metrics.regions, m.region),
   misc    |-> IF m.misc # 0 THEN Append(metrics.misc, m.misc) ELSE metrics.misc]

\* StepProcess ending the connection when the Response says done, as
\* _end_connection would
StepProcessCloseOnDone ==
  /\ pc = "step_process"
  /\ pc' = "idle"
  /\ LET agents == env_data.states_data
         n      == env_data.n_frames
     IN  IF agents = <<>>
         THEN /\ result' = [NoResult EXCEPT !.status = "error", !.err = "IndexError"]
              /\ UNCHANGED << metrics, events >>
         ELSE IF ~agents[1].metrics.present \/ agents[1].metrics.region = 0
         THEN /\ result' = [NoResult EXCEPT !.status = "error", !.err = "KeyError"]
              /\ UNCHANGED << metrics, events >>
         ELSE /\ metrics' = RecordMetrics(agents[1].metrics)
              /\ Log("divide")
              /\ IF n = 0
                 THEN result' = [NoResult EXCEPT !.status = "error",
                                                 !.err = "ZeroDivisionError"]
                 ELSE result' = [status |-> "ok", err |-> "",
                                 states |-> Names(agents),
                                 rewards |-> ScaledRewards(agents, n),
                                 done |-> env_data.done, n_frames |-> n]
  /\ IF result'.status = "ok" /\ result'.done
     THEN socket' = None /\ client_socket' = None
     ELSE UNCHANGED << socket, client_socket >>
  /\ UNCHANGED << godot_process, is_godot_launched, is_rendering, command, call,
                  env_data, closed, sim, outstanding >>
  /\ UNCHANGED << random_generator, request, sent >>
  /\ UNCHANGED receive

\* step, from _split_env_data to the return
StepProcess ==
  /\ pc = "step_process"
  /\ pc' = "idle"
  /\ LET agents == env_data.states_data
         n      == env_data.n_frames
     IN  IF agents = <<>>
         THEN /\ result' = [NoResult EXCEPT !.status = "error", !.err = "IndexError"]
              /\ UNCHANGED << metrics, events >>
         ELSE IF ~agents[1].metrics.present \/ agents[1].metrics.region = 0
         THEN /\ result' = [NoResult EXCEPT !.status = "error", !.err = "KeyError"]
              /\ UNCHANGED << metrics, events >>
         ELSE /\ metrics' = RecordMetrics(agents[1].metrics)
              /\ Log("divide")
              /\ IF n = 0
                 THEN result' = [NoResult EXCEPT !.status = "error",
                                                 !.err = "ZeroDivisionError"]
                 ELSE result' = [status |-> "ok", err |-> "",
                                 states |-> Names(agents),
                                 rewards |-> ScaledRewards(agents, n),
                                 done |-> env_data.done, n_frames |-> n]
  /\ UNCHANGED << socket, client_socket, godot_process, is_godot_launched,
                  is_rendering, command, call, env_data, closed, sim, outstanding >>
  /\ UNCHANGED << random_generator, request, sent >>
  /\ UNCHANGED receive

\* ------------------------------------------------------- the simulation
\* the launched process connects to the listening socket
SimConnect ==
  /\ socket = "listening"
  /\ godot_process = "running"
  /\ simConn = "none"
  /\ simConn' = "queued"
  /\ UNCHANGED << session, pc, call, env_data, result, events, closed, toSim,
                  toSession, outstanding >>
  /\ UNCHANGED << random_generator, request, sent >>
  /\ UNCHANGED receive

\* it answers an Init or Action request with one Response, drawn from S
SimReply(S) ==
  /\ simConn = "connected"
  /\ toSim # <<>>
  /\ ~Value(Head(toSim), "termination")
  /\ toSim' = Tail(toSim)
  /\ \E resp \in S : toSession' = Append(toSession, resp)
  /\ UNCHANGED << session, pc, call, env_data, result, events, closed, simConn,
                  outstanding >>
  /\ UNCHANGED << random_generator, request, sent >>
  /\ UNCHANGED receive

\* it exits on a Terminate request
SimExit ==
  /\ simConn = "connected"
  /\ toSim # <<>>
  /\ Value(Head(toSim), "termination")
  /\ toSim' = Tail(toSim)
  /\ godot_process' = "exited"
  /\ simConn' = "none"
  /\ UNCHANGED << socket, client_socket, is_godot_launched, is_rendering, metrics,
                  command, pc, call, env_data, result, events, closed, toSession,
                  outstanding >>
  /\ UNCHANGED << random_generator, request, sent >>
  /\ UNCHANGED receive

\* ------------------------------------------------------------------ spec
Next ==
  \/ \E r \in BOOLEAN, sd \in SeedArgs, pr \in ParamsArgs : CallReset(r, sd, pr)
  \/ \E a \in ActionsArgs : CallStep(a)
  \/ CallClose
  \/ ChangeRenderTypeIfNeeded
  \/ SetRenderType
  \/ LaunchSimulationIfNeeded
  \/ InitializeSocketIfNone
  \/ BindListen
  \/ Accept
  \/ ResetSend
  \/ GetEnvironmentState
  \/ ResetReturn
  \/ CloseSend
  \/ EndConnection
  \/ ProcessWait
  \/ CloseClearFlag
  \/ StepSend
  \/ StepProcess
  \/ SimConnect
  \/ SimReply(LifecycleResponses)
  \/ SimExit

Spec == Init /\ [][Next]_vars

\* One session that is reset and stepped, never closed, with every Response
\* of the bounded set: the specification of the claims about step's results.
NextStep ==
  \/ CallReset(TRUE, << 5 >>, <<>>)
  \/ \E a \in ActionsArgs : CallStep(a)
  \/ ChangeRenderTypeIfNeeded
  \/ SetRenderType
  \/ LaunchSimulationIfNeeded
  \/ InitializeSocketIfNone
  \/ BindListen
  \/ Accept
  \/ ResetSend
  \/ GetEnvironmentState
  \/ ResetReturn
  \/ StepSend
  \/ StepProcess
  \/ SimConnect
  \/ SimReply(Responses)

SpecStep == Init /\ [][NextStep]_vars

\* The scenario of one agent "Plane": the session is constructed with seed
\* 42, reset is called with render = False and no seed, step with action 2
\* for "Plane", and every Response carries reward 8 and n_frames 4 with any
\* of the metrics entries a Response may have.
ScenarioResponses ==
  { [states_data |-> << [name |-> "Plane", reward |-> 8, metrics |-> m] >>,
     n_frames |-> 4, done |-> d] :
      m \in MetricsValues, d \in BOOLEAN }

InitScenario == Init /\ random_generator.seed = 42

NextScenario ==
  \/ CallReset(FALSE, <<>>, <<>>)
  \/ CallStep(<< ActionDatum("Plane", 2) >>)
  \/ ChangeRenderTypeIfNeeded
  \/ SetRenderType
  \/ LaunchSimulationIfNeeded
  \/ InitializeSocketIfNone
  \/ BindListen
  \/ Accept
  \/ ResetSend
  \/ GetEnvironmentState
  \/ ResetReturn
  \/ StepSend
  \/ StepProcess
  \/ SimConnect
  \/ SimReply(ScenarioResponses)

SpecScenario == InitScenario /\ [][NextScenario]_vars

\* set_seed, called between two public calls
SetSeed(s) ==
  /\ pc = "idle"
  /\ random_generator' = [seed |-> s, draws |-> 0]
  /\ UNCHANGED << session, call, sim, pc, env_data, request, sent, result, events,
                  closed, outstanding >>
  /\ UNCHANGED receive

\* The session with every call and set_seed: the specification of the claim
\* about the sequence of seeds drawn.
NextSeed ==
  \/ Next
  \/ \E s \in SessionSeeds : SetSeed(s)

SpecSeed == Init /\ [][NextSeed]_vars

\* ===================================================== receive routines
\* recv(4096) of the package and build copies, recv(10000) of the script
RecvSize == 4096

ScriptRecvSize == 10000

\* "if 4 < len(data_received)" of the package copy
MinDataLength == 4

\* "if len(states_data) > 4" of the script copy
MinStatesLength == 4

\* recvall(sock, 4): the length of the header of recv_msg
HeaderSize == 4

\* struct.unpack('>I', raw_msglen)[0]
BigEndian32(b) ==
  b[1] * 16777216 + b[2] * 65536 + b[3] * 256 + b[4]

\* the four bytes that unpack to n
LengthPrefix(n) ==
  << (n \div 16777216) % 256, (n \div 65536) % 256, (n \div 256) % 256, n % 256 >>

\* a message as the sender of recv_msg's stream writes it
Frame(body) == LengthPrefix(Len(body)) \o body

\* {"states_data": [], "n_frames": 1, "done": false}
ShortResponse ==
  << 123, 34, 115, 116, 97, 116, 101, 115, 95, 100, 97, 116, 97, 34, 58, 32,
     91, 93, 44, 32, 34, 110, 95, 102, 114, 97, 109, 101, 115, 34, 58, 32,
     49, 44, 32, 34, 100, 111, 110, 101, 34, 58, 32, 102, 97, 108, 115, 101,
     125 >>

\* {"states_data": [{"name": "A", "state": [1, 2], "reward": 2, "metrics": {"region": 1}}], "n_frames": 2, "done": true}
LongResponse ==
  << 123, 34, 115, 116, 97, 116, 101, 115, 95, 100, 97, 116, 97, 34, 58, 32,
     91, 123, 34, 110, 97, 109, 101, 34, 58, 32, 34, 65, 34, 44, 32, 34,
     115, 116, 97, 116, 101, 34, 58, 32, 91, 49, 44, 32, 50, 93, 44, 32,
     34, 114, 101, 119, 97, 114, 100, 34, 58, 32, 50, 44, 32, 34, 109, 101,
     116, 114, 105, 99, 115, 34, 58, 32, 123, 34, 114, 101, 103, 105, 111, 110,
     34, 58, 32, 49, 125, 125, 93, 44, 32, 34, 110, 95, 102, 114, 97, 109,
     101, 115, 34, 58, 32, 50, 44, 32, 34, 100, 111, 110, 101, 34, 58, 32,
     116, 114, 117, 101, 125 >>

\* {"agents_data": [], "n_frames": 1, "done": false}
ShortScriptResponse ==
  << 123, 34, 97, 103, 101, 110, 116, 115, 95, 100, 97, 116, 97, 34, 58, 32,
     91, 93, 44, 32, 34, 110, 95, 102, 114, 97, 109, 101, 115, 34, 58, 32,
     49, 44, 32, 34, 100, 111, 110, 101, 34, 58, 32, 102, 97, 108, 115, 101,
     125 >>

\* {"agents_data": [{"name": "A", "state": [1, 2], "reward": 2, "metrics": {"region": 1}}], "n_frames": 2, "done": true}
LongScriptResponse ==
  << 123, 34, 97, 103, 101, 110, 116, 115, 95, 100, 97, 116, 97, 34, 58, 32,
     91, 123, 34, 110, 97, 109, 101, 34, 58, 32, 34, 65, 34, 44, 32, 34,
     115, 116, 97, 116, 101, 34, 58, 32, 91, 49, 44, 32, 50, 93, 44, 32,
     34, 114, 101, 119, 97, 114, 100, 34, 58, 32, 50, 44, 32, 34, 109, 101,
     116, 114, 105, 99, 115, 34, 58, 32, 123, 34, 114, 101, 103, 105, 111, 110,
     34, 58, 32, 49, 125, 125, 93, 44, 32, 34, 110, 95, 102, 114, 97, 109,
     101, 115, 34, 58, 32, 50, 44, 32, 34, 100, 111, 110, 101, 34, 58, 32,
     116, 114, 117, 101, 125 >>

Receivers == { "build", "package", "script", "recv_msg" }

\* the Responses a simulation sends to each copy of the session
ResponseTexts(r) ==
  IF r = "script"
  THEN { ShortScriptResponse, LongScriptResponse }
  ELSE { ShortResponse, LongResponse }

\* json.loads: the grammar of JSON over bytes. Every Parse operator takes
\* the index of the first byte of what it parses and gives the index after
\* its last byte, or 0 when the bytes from there are not what it parses.
IsWhitespace(c) == c \in { 32, 9, 10, 13 }

IsDigit(c) == c \in 48..57

RECURSIVE SkipWhitespace(_, _)
SkipWhitespace(b, i) ==
  IF i <= Len(b) /\ IsWhitespace(b[i]) THEN SkipWhitespace(b, i + 1) ELSE i

RECURSIVE SkipDigits(_, _)
SkipDigits(b, i) ==
  IF i <= Len(b) /\ IsDigit(b[i]) THEN SkipDigits(b, i + 1) ELSE i

ParseLiteral(b, i, lit) ==
  IF i + Len(lit) - 1 <= Len(b) /\ SubSeq(b, i, i + Len(lit) - 1) = lit
  THEN i + Len(lit)
  ELSE 0

\* i is the index after the opening quote
RECURSIVE StringEnd(_, _)
StringEnd(b, i) ==
  IF i > Len(b) THEN 0
  ELSE IF b[i] = 34 THEN i + 1
  ELSE IF b[i] = 92 THEN StringEnd(b, i + 2)
  ELSE IF b[i] < 32 THEN 0
  ELSE StringEnd(b, i + 1)

ParseNumber(b, i) ==
  LET d == IF b[i] = 45 THEN i + 1 ELSE i
      e == IF d > Len(b) \/ ~IsDigit(b[d]) THEN 0
           ELSE IF b[d] = 48 THEN d + 1
           ELSE SkipDigits(b, d)
  IN  IF e = 0 THEN 0
      ELSE IF e <= Len(b) /\ b[e] = 46
      THEN IF e + 1 <= Len(b) /\ IsDigit(b[e + 1]) THEN SkipDigits(b, e + 1) ELSE 0
      ELSE e

RECURSIVE ParseValue(_, _)
RECURSIVE ParseMembers(_, _)
RECURSIVE ParseElements(_, _)
ParseValue(b, i) ==
  IF i > Len(b) THEN 0
  ELSE IF b[i] = 123
  THEN LET j == SkipWhitespace(b, i + 1)
       IN  IF j > Len(b) THEN 0
           ELSE IF b[j] = 125 THEN j + 1
           ELSE ParseMembers(b, j)
  ELSE IF b[i] = 91
  THEN LET j == SkipWhitespace(b, i + 1)
       IN  IF j > Len(b) THEN 0
           ELSE IF b[j] = 93 THEN j + 1
           ELSE ParseElements(b, j)
  ELSE IF b[i] = 34 THEN StringEnd(b, i + 1)
  ELSE IF b[i] = 116 THEN ParseLiteral(b, i, Ascii("true"))
  ELSE IF b[i] = 102 THEN ParseLiteral(b, i, Ascii("false"))
  ELSE IF b[i] = 110 THEN ParseLiteral(b, i, Ascii("null"))
  ELSE IF b[i] = 45 \/ IsDigit(b[i]) THEN ParseNumber(b, i)
  ELSE 0

\* "key": value, "key": value ... }
ParseMembers(b, j) ==
  IF j > Len(b) \/ b[j] # 34 THEN 0
  ELSE LET k == StringEnd(b, j + 1)
           c == SkipWhitespace(b, k)
       IN  IF k = 0 \/ c > Len(b) \/ b[c] # 58 THEN 0
           ELSE LET v == ParseValue(b, SkipWhitespace(b, c + 1))
                    e == SkipWhitespace(b, v)
                IN  IF v = 0 \/ e > Len(b) THEN 0
                    ELSE IF b[e] = 125 THEN e + 1
                    ELSE IF b[e] = 44 THEN ParseMembers(b, SkipWhitespace(b, e + 1))
                    ELSE 0

\* value, value ... ]
ParseElements(b, j) ==
  LET v == ParseValue(b, j)
      e == SkipWhitespace(b, v)
  IN  IF v = 0 \/ e > Len(b) THEN 0
      ELSE IF b[e] = 93 THEN e + 1
      ELSE IF b[e] = 44 THEN ParseElements(b, SkipWhitespace(b, e + 1))
      ELSE 0

\* json.loads(b) returns: b is one JSON value between optional whitespace
JsonLoads(b) ==
  LET i == SkipWhitespace(b, 1)
      v == ParseValue(b, i)
  IN  v # 0 /\ SkipWhitespace(b, v) = Len(b) + 1

\* json.loads(b) is a dictionary
IsObject(b) == JsonLoads(b) /\ b[SkipWhitespace(b, 1)] = 123

\* the keys of the dictionary json.loads(b); j is the index of a key's
\* opening quote or of the closing brace
RECURSIVE KeysFrom(_, _)
KeysFrom(b, j) ==
  IF b[j] = 125 THEN {}
  ELSE LET k == StringEnd(b, j + 1)
           c == SkipWhitespace(b, k)
           v == ParseValue(b, SkipWhitespace(b, c + 1))
           e == SkipWhitespace(b, v)
       IN  { SubSeq(b, j + 1, k - 2) }
           \cup (IF b[e] = 44 THEN KeysFrom(b, SkipWhitespace(b, e + 1)) ELSE {})

ObjectKeys(b) == KeysFrom(b, SkipWhitespace(b, SkipWhitespace(b, 1) + 1))

\* the key of the list of agents in a Response
AgentsKey == IF receiver = "script" THEN Ascii("agents_data") ELSE Ascii("states_data")

\* _format_states_data: what json.loads and the reading of the list of
\* agents end with
FormatOutcome(text) ==
  IF ~JsonLoads(text) THEN "JSONDecodeError"
  ELSE IF ~IsObject(text) THEN "TypeError"
  ELSE IF AgentsKey \notin ObjectKeys(text) THEN "KeyError"
  ELSE "Response"

\* what follows a Response in the stream: nothing, or the first bytes of the
\* next one
NextStart(r) ==
  IF r = "recv_msg"
  THEN LengthPrefix(Len(ShortResponse))
  ELSE SubSeq(ShortResponse, 1, HeaderSize)

Trailers(r) ==
  IF r \in { "recv_msg", "build" } THEN { <<>>, NextStart(r) } ELSE { <<>> }

\* a receive routine is started on a connection on which the simulation
\* sends one Response, alone or with the start of the next one behind it
InitRecv ==
  /\ InitSession
  /\ receiver \in Receivers
  /\ message \in ResponseTexts(receiver)
  /\ trailer \in Trailers(receiver)
  /\ pending = (IF receiver = "recv_msg" THEN Frame(message) ELSE message) \o trailer
  /\ peer_closed = FALSE
  /\ total_data = <<>>
  /\ states_data = <<>>
  /\ data = <<>>
  /\ msglen = 0
  /\ rx_pc = IF receiver = "recv_msg" THEN "header" ELSE "recv"
  /\ decoded = "none"
  /\ eof_at = "none"

\* client_socket.recv(size) returns: some of the bytes not yet returned, at
\* least one and at most size, or b'' once the peer has closed and every byte
\* it sent has been returned; otherwise recv blocks
RecvReturns == pending # <<>> \/ peer_closed

Recv(size) ==
  IF pending # <<>>
  THEN { SubSeq(pending, 1, n) : n \in 1..(IF size < Len(pending) THEN size ELSE Len(pending)) }
  ELSE { <<>> }

AfterRecv(packet) ==
  /\ pending' = SubSeq(pending, Len(packet) + 1, Len(pending))
  /\ eof_at' = IF packet = <<>> /\ eof_at = "none" THEN rx_pc ELSE eof_at

\* _wait_and_receive_states_data of the build copy, one turn of its loop
WaitAndReceiveStatesData ==
  /\ receiver = "build"
  /\ rx_pc = "recv"
  /\ RecvReturns
  /\ \E data_received \in Recv(RecvSize) :
       /\ AfterRecv(data_received)
       /\ total_data' = total_data \o data_received
       /\ IF JsonLoads(total_data')
          THEN states_data' = total_data' /\ rx_pc' = "format"
          ELSE UNCHANGED << states_data, rx_pc >>
  /\ UNCHANGED << receiver, message, trailer, peer_closed, data, msglen, decoded, driver >>

\* _wait_and_receive_states_data of the package copy, one turn of its loop
WaitAndReceiveStatesDataPackage ==
  /\ receiver = "package"
  /\ rx_pc = "recv"
  /\ RecvReturns
  /\ \E data_received \in Recv(RecvSize) :
       /\ AfterRecv(data_received)
       /\ IF MinDataLength < Len(data_received)
          THEN /\ total_data' = total_data \o data_received
               /\ IF Len(data_received) < RecvSize
                  THEN states_data' = total_data' /\ rx_pc' = "format"
                  ELSE UNCHANGED << states_data, rx_pc >>
          ELSE UNCHANGED << total_data, states_data, rx_pc >>
  /\ UNCHANGED << receiver, message, trailer, peer_closed, data, msglen, decoded, driver >>

\* _wait_and_receive_states_data of the script copy, one turn of its loop
WaitAndReceiveStatesDataScript ==
  /\ receiver = "script"
  /\ rx_pc = "recv"
  /\ RecvReturns
  /\ \E data_received \in Recv(ScriptRecvSize) :
       /\ AfterRecv(data_received)
       /\ states_data' = data_received
       /\ rx_pc' = IF Len(data_received) > MinStatesLength THEN "format" ELSE "recv"
  /\ UNCHANGED << receiver, message, trailer, peer_closed, total_data, data, msglen,
                  decoded, driver >>

\* _format_states_data on the text returned
FormatStatesData ==
  /\ rx_pc = "format"
  /\ decoded' = FormatOutcome(states_data)
  /\ rx_pc' = "done"
  /\ UNCHANGED << receiver, message, trailer, pending, peer_closed, total_data, states_data,
                  data, msglen, eof_at, driver >>

\* recv_msg: recvall(sock, 4), one turn of its loop, and the unpacking
RecvMsgHeader ==
  /\ receiver = "recv_msg"
  /\ rx_pc = "header"
  /\ RecvReturns
  /\ \E packet \in Recv(HeaderSize - Len(data)) :
       /\ AfterRecv(packet)
       /\ IF packet = <<>>
          THEN /\ decoded' = "None"
               /\ rx_pc' = "done"
               /\ data' = <<>>
               /\ UNCHANGED msglen
          ELSE IF Len(data \o packet) < HeaderSize
          THEN /\ data' = data \o packet
               /\ UNCHANGED << msglen, rx_pc, decoded >>
          ELSE /\ msglen' = BigEndian32(data \o packet)
               /\ data' = <<>>
               /\ rx_pc' = IF msglen' = 0 THEN "done" ELSE "body"
               /\ decoded' = IF msglen' = 0 THEN "data" ELSE decoded
  /\ UNCHANGED << receiver, message, trailer, peer_closed, total_data, states_data, driver >>

\* recv_msg: recvall(sock, msglen), one turn of its loop
RecvMsgBody ==
  /\ receiver = "recv_msg"
  /\ rx_pc = "body"
  /\ RecvReturns
  /\ \E packet \in Recv(msglen - Len(data)) :
       /\ AfterRecv(packet)
       /\ IF packet = <<>>
          THEN /\ decoded' = "None"
               /\ rx_pc' = "done"
               /\ data' = <<>>
          ELSE IF Len(data \o packet) < msglen
          THEN /\ data' = data \o packet
               /\ UNCHANGED << rx_pc, decoded >>
          ELSE /\ data' = data \o packet
               /\ rx_pc' = "done"
               /\ decoded' = "data"
  /\ UNCHANGED << receiver, message, trailer, peer_closed, total_data, states_data, msglen,
                  driver >>

\* the simulation closes its end; what it had not sent is never sent
PeerClose ==
  /\ rx_pc \in { "recv", "header", "body" }
  /\ ~peer_closed
  /\ peer_closed' = TRUE
  /\ pending' = <<>>
  /\ UNCHANGED << receiver, message, trailer, total_data, states_data, data, msglen, rx_pc,
                  decoded, eof_at, driver >>

NextRecv ==
  \/ WaitAndReceiveStatesData
  \/ WaitAndReceiveStatesDataPackage
  \/ WaitAndReceiveStatesDataScript
  \/ FormatStatesData
  \/ RecvMsgHeader
  \/ RecvMsgBody
  \/ PeerClose

SpecRecv == InitRecv /\ [][NextRecv]_vars

\* ================================================================ claims
\* the running (or last) call is a reset whose render flag differs from the
\* recorded one, called with the process launched
RenderChange ==
  op = "reset" /\ render # pre.is_rendering /\ pre.is_godot_launched

\* ... and with the connection open (state Ready)
RenderChangeFromReady ==
  RenderChange /\ pre.client_socket = "open"

\* event e occurs before position i of the call's events
Before(e, i) == \E j \in DOMAIN events : j < i /\ events[j] = e

\* C1: a reset(render=False) that follows a reset(render=True) which launched
\* the simulation and opened the connection ends, unless the address is
\* refused to it, having waited for the process once, launched once, closed
\* the connection once, accepted once, and sent Terminate before the launch.
C1_RenderChangeRelaunchesOnce ==
  ( /\ RenderChangeFromReady
    /\ pre.is_rendering = TRUE
    /\ render = FALSE
    /\ pc = "idle"
    /\ Count("bind_refused") = 0 )
  => /\ result.status = "ok"
     /\ Count("wait") = 1
     /\ Count("launch") = 1
     /\ Count("sock_close") = 1
     /\ Count("accept") = 1
     /\ Count("send_Terminate") = 1
     /\ First("send_Terminate") < First("launch")

\* C2: in a reset that changes the render flag of a session in state Ready,
\* Terminate goes through the existing connection: no bind, listen or accept
\* comes before it, and it has been sent when the call ends.
C2_TerminateThroughExistingConnection ==
  RenderChangeFromReady
  => /\ \A i \in DOMAIN events :
          events[i] \in {"socket", "bind", "rebind", "bind_refused", "listen", "accept"}
          => Before("send_Terminate", i)
     /\ (pc = "idle" => Count("send_Terminate") >= 1)

\* C3: bind + listen is never invoked on a socket that is already listening,
\* no accept is performed on a socket that has already accepted, and a socket
\* that is torn down has accepted.
C3_NoRebindOneAcceptPerSocket ==
  /\ Count("rebind") = 0
  /\ (pc \in {"chg_accept", "reset_accept"} => client_socket = None)
  /\ (pc = "close_end" => client_socket = "open")

\* C4: close() on a session with an open connection sends one Terminate,
\* clears the launched flag only once the wait has seen the process exit, and
\* returns with the process exited and both socket handles reset.
C4_CloseTerminatesWaitsTearsDown ==
  (op = "close" /\ pre.client_socket = "open")
  => /\ Count("send_Terminate") <= 1
     /\ (~is_godot_launched => godot_process = "exited" /\ Count("wait") = 1)
     /\ (pc = "idle"
         => /\ result.status = "ok"
            /\ Count("send_Terminate") = 1
            /\ Count("wait") = 1
            /\ godot_process = "exited"
            /\ ~is_godot_launched
            /\ socket = None
            /\ client_socket = None)

C4_Witness ==
  /\ op = "close"
  /\ pre.client_socket = "open"
  /\ pc = "idle"
  /\ result.status = "ok"
  /\ events = << "send_Terminate", "sock_close", "wait", "clear" >>

\* C5, as stated: once close() has returned, a reset launches no process,
\* accepts no connection and sends no Init.
C5_ClosedIsTerminal ==
  (closed /\ op = "reset")
  => /\ Count("launch") = 0
     /\ Count("accept") = 0
     /\ Count("send_Init") = 0

\* C5, amended: close() leaves the session as it was constructed (flag down,
\* both handles None), and a reset called on a closed session with the flag
\* down launches one new process and, when it returns, has accepted one new
\* connection and sent one Init on it.
C5_ResetAfterCloseStartsOver ==
  /\ (op = "close" /\ pc = "idle" /\ result.status = "ok"
      => ~is_godot_launched /\ socket = None /\ client_socket = None)
  /\ (closed /\ op = "reset" /\ ~pre.is_godot_launched
      => /\ (pc \notin {"reset_change", "chg_set", "reset_launch"}
             => Count("launch") = 1 /\ is_godot_launched)
         /\ (pc = "idle" /\ result.status = "ok"
             => /\ Count("accept") = 1
                /\ Count("send_Init") = 1
                /\ client_socket = "open"))

C5_Witness ==
  /\ closed
  /\ op = "reset"
  /\ ~pre.is_godot_launched
  /\ pc = "idle"
  /\ result.status = "ok"
  /\ Count("launch") = 1
  /\ Count("send_Init") = 1

\* C6: a step called while no connection is open (before any reset, after
\* close) sends no Action, leaves the process flag, the handles and the
\* render flag as they were, and ends with an error.
C6_StepWithoutConnectionFails ==
  (op = "step" /\ pre.client_socket = None)
  => /\ Count("send_Action") = 0
     /\ toSim = <<>>
     /\ Fields = pre
     /\ (pc = "idle" => result.status = "error")

C6_Witness ==
  /\ op = "step"
  /\ closed
  /\ pre.client_socket = None
  /\ pc = "idle"
  /\ result.err = "AttributeError"

\* C7: at most one request awaits its Response, and the session is about to
\* send (Init, Action or Terminate) only when none does.
C7_StrictRequestReply ==
  /\ outstanding <= 1
  /\ Len(toSim) + Len(toSession) <= 1
  /\ (pc \in {"reset_send", "step_send", "close_send"} => outstanding = 0)

C7_Witness ==
  /\ op = "step"
  /\ pc = "step_recv"
  /\ outstanding = 1
  /\ toSession # <<>>
  /\ Len(metrics.regions) >= 1

C9_ZeroFrameCountFailsWithoutDividing ==
  (op = "step" /\ pc = "idle" /\ Count("recv") = 1 /\ env_data.n_frames = 0)
  => /\ result.status = "error"
     /\ Count("divide") = 0

\* C10: when step returns for a Response with frame count n, n >= 1, the
\* returned frame count is n and the reward returned for each agent is the
\* agent's received reward divided by n.
C10_RewardDividedByFrameCount ==
  (op = "step" /\ pc = "idle" /\ result.status = "ok")
  => /\ env_data.n_frames >= 1
     /\ result.n_frames = env_data.n_frames
     /\ DOMAIN result.rewards = DOMAIN env_data.states_data
     /\ \A i \in DOMAIN env_data.states_data :
          /\ result.rewards[i].reward[2] > 0
          /\ result.rewards[i].reward[1] * env_data.n_frames
               = env_data.states_data[i].reward * result.rewards[i].reward[2]

C10_Witness ==
  /\ op = "step"
  /\ pc = "idle"
  /\ result.status = "ok"
  /\ env_data.n_frames = 2
  /\ Len(env_data.states_data) = 2
  /\ env_data.states_data[1].reward = 1
  /\ env_data.states_data[2].reward = 2
  /\ result.rewards[1].reward = << 1, 2 >>
  /\ result.rewards[2].reward = << 1, 1 >>

\* C11: a step that returns gives a states list and a rewards list as long as
\* the Response's list of agents, whose i-th entries both carry the name of
\* the i-th agent of the Response; a reset that returns gives the states in
\* the Response's order.
C11_AgentOrderPreserved ==
  (pc = "idle" /\ result.status = "ok" /\ op \in {"reset", "step"}) =>
    LET agents == env_data.states_data
    IN  /\ Len(result.states) = Len(agents)
        /\ \A i \in DOMAIN agents : result.states[i] = agents[i].name
        /\ op = "step" =>
             /\ Len(result.rewards) = Len(agents)
             /\ \A i \in DOMAIN agents : result.rewards[i].name = agents[i].name

\* a step has returned for a Response listing two agents with different names
C11_Witness ==
  /\ pc = "idle"
  /\ op = "step"
  /\ result.status = "ok"
  /\ Len(env_data.states_data) = MaxAgents
  /\ env_data.states_data[1].name # env_data.states_data[2].name
  /\ result.rewards[2].name = env_data.states_data[2].name

\* the running call is a reset with the recorded render mode, made while the
\* process is flagged running and the connection is open
SameRenderResetInReady ==
  /\ op = "reset"
  /\ render = pre.is_rendering
  /\ pre.is_godot_launched
  /\ pre.client_socket = "open"

\* C12: a reset whose render flag equals the recorded render mode, called
\* while the process is running and the connection is open, launches no
\* process and does no bind, listen or accept; it sends one Init request and
\* receives one Response, nothing else, and the process handle, the
\* connection handles and the flags are what they were before the call.
C12_SameRenderResetOnlyExchanges ==
  SameRenderResetInReady =>
    /\ Count("launch") = 0
    /\ Count("socket") = 0
    /\ Count("bind") = 0
    /\ Count("listen") = 0
    /\ Count("accept") = 0
    /\ Count("send_Terminate") = 0
    /\ Count("send_Init") <= 1
    /\ Count("recv") <= 1
    /\ Fields = pre
    /\ pc = "idle" => /\ result.status = "ok"
                      /\ events = << "send_Init", "recv" >>

\* such a reset has returned
C12_Witness ==
  /\ SameRenderResetInReady
  /\ pc = "idle"
  /\ result.status = "ok"
  /\ events = << "send_Init", "recv" >>
  /\ godot_process = "running"

\* the running call follows a step that returned done = true, and is a step
\* or a reset with the recorded render mode
FollowsDone ==
  /\ after_done
  /\ op = "step" \/ (op = "reset" /\ render = pre.is_rendering)

\* C13: when a step returns done = true the handles and flags of the session
\* are what they were before the step, the connection is open, the process
\* is flagged running and no Terminate request has been sent; the step or
\* same-mode reset that follows makes no new socket and accepts no new
\* connection, and its first act is to send its request on the open one.
C13_DoneChangesNothing ==
  /\ (op = "step" /\ pc = "idle" /\ result.status = "ok" /\ result.done) =>
       /\ Fields = pre
       /\ client_socket = "open"
       /\ is_godot_launched
       /\ Count("send_Terminate") = 0
       /\ toSim = <<>>
  /\ FollowsDone =>
       /\ pre.client_socket = "open"
       /\ client_socket = "open"
       /\ socket = pre.socket
       /\ Count("socket") = 0
       /\ Count("bind") = 0
       /\ Count("accept") = 0
       /\ Count("sock_close") = 0
       /\ pc = "idle" => /\ Len(events) >= 2
                         /\ events[1] \in {"send_Init", "send_Action"}
                         /\ events[2] = "recv"

\* a reset that follows a step with done = true has returned
C13_Witness ==
  /\ FollowsDone
  /\ op = "reset"
  /\ pc = "idle"
  /\ result.status = "ok"
  /\ events = << "send_Init", "recv" >>

\* C20: the reset that launches the process launches it with the command
\* "<executable> --main-pack <payload>", followed by
\* " --disable-render-loop --no-window" exactly when its render flag is false.
C20_LaunchCommandFollowsRenderFlag ==
  (op = "reset" /\ Count("launch") = 1) =>
    /\ render => command = "godot --main-pack env"
    /\ ~render => command = "godot --main-pack env --disable-render-loop --no-window"

\* a reset with render = false has launched the process
C20_Witness ==
  /\ op = "reset"
  /\ ~render
  /\ Count("launch") = 1
  /\ godot_process = "running"
  /\ command = "godot --main-pack env --disable-render-loop --no-window"

\* C18: close() called while the listening socket and the connection are
\* already not open returns without an error and leaves the handles and
\* flags of the session as they were.
C18_CloseWhenNotOpenIsNoOp ==
  (op = "close" /\ pc = "idle" /\ pre.socket = None /\ pre.client_socket = None) =>
    /\ result.status = "ok"
    /\ Fields = pre

\* the fields a request must and may carry
RequestShape(req) ==
  /\ \A i, j \in DOMAIN req : req[i].key = req[j].key => i = j
  /\ Has(req, "initialization")
  /\ Has(req, "termination")
  /\ Has(req, "render")
  /\ Has(req, "seed") <=> Value(req, "initialization")
  /\ Has(req, "actions_data") <=>
       (~Value(req, "initialization") /\ ~Value(req, "termination"))
  /\ Has(req, "params") => Value(req, "initialization")

\* C19: every request built carries initialization, termination and render;
\* it carries seed exactly when initialization is true, and actions_data
\* exactly when initialization and termination are both false; params is
\* carried only by an initialization request, and only when the reset was
\* given params, which is then the value carried.
C19_RequestShape ==
  /\ request # <<>> =>
       /\ RequestShape(request)
       /\ Has(request, "params") =>
            /\ op = "reset"
            /\ params # <<>>
            /\ Value(request, "params") = params[1]
  /\ \A i \in DOMAIN toSim : RequestShape(toSim[i])

\* a reset given params has sent its request, and the request has a seed
C19_Witness ==
  /\ op = "reset"
  /\ pc = "reset_recv"
  /\ Has(request, "params")
  /\ Has(request, "seed")
  /\ ~Has(request, "actions_data")
  /\ toSim = << request >>

\* C14: the bytes given to sendall for a request are four bytes holding, as
\* an unsigned big-endian number, the length L of the request's JSON text,
\* followed by exactly the L bytes of that text.
C14_SentFrameIsLengthPrefixed ==
  sent # <<>> =>
    /\ Len(sent) >= 4
    /\ BigEndian32(sent) = Len(sent) - 4
    /\ SubSeq(sent, 5, Len(sent)) = Dumps(request)

\* C15: whatever the chunks in which the bytes of a Response are returned by
\* recv, the receive routine of reset and step returns once the last byte
\* has been returned, and what it yields is the Response the whole text stands
\* for, as when the text arrives in one chunk.
C15_FramingIsChunkSizeIndependent ==
  (receiver \in {"build", "package", "script"} /\ trailer = <<>> /\ ~peer_closed) =>
    /\ pending = <<>> => rx_pc \in {"format", "done"}
    /\ rx_pc \in {"format", "done"} => states_data = message
    /\ rx_pc = "done" => decoded = "Response"

\* C16: when the simulation closes the connection before the whole Response
\* has been received, the receive routine of reset and step, on reading the
\* end of the stream, ends with ConnectionLost: it neither goes on waiting
\* nor returns a part of the Response.
C16_PeerCloseEndsWithConnectionLost ==
  (receiver \in {"build", "package", "script"} /\ eof_at # "none") =>
    /\ rx_pc = "done"
    /\ decoded = "ConnectionLost"

\* C17: recv_msg ends with IncompleteHeader when the stream closes before
\* the four header bytes are read, and with TruncatedBody when it closes
\* after the header and before msglen body bytes are read; in neither case
\* does it return a part of the body.
C17_DistinctHeaderAndBodyErrors ==
  (receiver = "recv_msg" /\ rx_pc = "done") =>
    /\ eof_at = "header" => decoded = "IncompleteHeader"
    /\ eof_at = "body" => decoded = "TruncatedBody"
    /\ eof_at # "none" => data = <<>>

\* s is the beginning of t
IsPrefix(s, t) == Len(s) <= Len(t) /\ SubSeq(t, 1, Len(s)) = s

C22_InitSeedSuppliedOrDrawn ==
  /\ (op = "reset" /\ request # <<>> /\ Value(request, "initialization")) =>
       /\ seed # <<>> => Value(request, "seed") = seed[1]
       /\ seed = <<>> =>
            /\ Value(request, "seed") =
                 Draw([random_generator EXCEPT !.draws = @ - 1])
            /\ Value(request, "seed") \in 0..(SeedHigh - 1)
  /\ (op = "reset" /\ pc = "idle" /\ result.status = "ok") =>
       /\ Count("send_Init") = 1
       /\ Value(request, "initialization")

\* a reset given no seed has returned, with the first value drawn
C22_Witness ==
  /\ op = "reset"
  /\ pc = "idle"
  /\ result.status = "ok"
  /\ seed = <<>>
  /\ random_generator.draws = 1
  /\ Value(request, "seed") = Draw([random_generator EXCEPT !.draws = 0])

\* C23: on the session with seed 42, reset(render=False) answered by a
\* Response listing "Plane" returns the states of ["Plane"], and a step with
\* action 2 for "Plane" answered by a Response with n_frames 4 and reward 8
\* returns the rewards [{name: "Plane", reward: 2}] and the frame count 4.
C23_PlaneScenario ==
  (random_generator.seed = 42 /\ pc = "idle" /\ env_data \in ScenarioResponses) =>
    /\ result.status = "ok"
    /\ result.states = << "Plane" >>
    /\ op = "step" =>
         /\ result.rewards = << [name |-> "Plane", reward |-> << 2, 1 >>] >>
         /\ result.n_frames = 4

\* C24: a step whose Response lists agents and has a frame count above zero
\* returns the states, rewards, done and frame count whether or not the first
\* agent carries metrics, or some keys of it; when the metrics are absent the
\* accumulator is what it was before the step.
C24_MetricsAreOptional ==
  (op = "step" /\ pc = "idle" /\ env_data.states_data # <<>> /\ env_data.n_frames > 0) =>
    /\ result.status = "ok"
    /\ Len(result.states) = Len(env_data.states_data)
    /\ Len(result.rewards) = Len(env_data.states_data)
    /\ result.done = env_data.done
    /\ result.n_frames = env_data.n_frames
    /\ ~env_data.states_data[1].metrics.present => metrics = pre_metrics

\* C30: a step that ends with an error leaves the accumulator exactly as it
\* was when the step was called: nothing of the Response is recorded.
C30_FailedStepRecordsNothing ==
  (op = "step" /\ pc = "idle" /\ result.status = "error") => metrics = pre_metrics

\* the running process was launched with the render loop and the window
LaunchedRendering == command = "godot --main-pack env"

\* C27: while the process is flagged running and no call is in progress, the
\* recorded render flag is the mode the process was launched with; and the
\* render flag of every Init or Action request sent is that mode too.
C27_RenderFlagIsLaunchMode ==
  /\ (is_godot_launched /\ pc = "idle") => (is_rendering <=> LaunchedRendering)
  /\ (op \in {"reset", "step"} /\ sent # <<>> /\ ~Value(request, "termination")) =>
       (Value(request, "render") <=> LaunchedRendering)

\* a reset that changed the render mode has relaunched the process and
\* returned
C27_Witness ==
  /\ RenderChange
  /\ pc = "idle"
  /\ result.status = "ok"
  /\ Count("launch") = 1
  /\ is_rendering = render
  /\ Value(request, "render") = render

\* C28: whenever no call is in progress and the last public operation, if any,
\* completed without error, the listening-socket handle is set exactly when
\* the client-connection handle is set, exactly when the process is flagged
\* launched.
C28_LifecycleFactsAgree ==
  (pc = "idle" /\ result.status # "error") =>
    /\ (socket # None) <=> (client_socket # None)
    /\ (client_socket # None) <=> is_godot_launched

\* a reset has returned with all three facts set and, later, a close has
\* returned with all three cleared
C28_Witness ==
  /\ op = "close"
  /\ pc = "idle"
  /\ result.status = "ok"
  /\ pre.is_godot_launched
  /\ socket = None
  /\ client_socket = None
  /\ ~is_godot_launched

\* C29: a reset that raised does not leave the listening-socket handle set
\* with no client connection, so no later reset skips the connection and
\* sends Init on a missing connection.
C29_FailedConnectLeavesNoSocket ==
  /\ (op = "reset" /\ pc = "idle" /\ result.status = "error") =>
       ~(socket # None /\ client_socket = None)
  /\ (op = "reset" /\ pc = "reset_send") => client_socket # None

\* C25: on a stream that holds one whole message followed by further bytes,
\* the receive routine never takes a byte of what follows, returns once the
\* last byte of the message is taken, and returns the body of that message,
\* leaving the following bytes in the stream.
C25_ReadsExactlyOneFrame ==
  (receiver \in {"recv_msg", "build"} /\ trailer # <<>> /\ ~peer_closed) =>
    /\ Len(pending) >= Len(trailer)
    /\ pending = trailer => rx_pc \in {"format", "done"}
    /\ rx_pc = "done" =>
         /\ pending = trailer
         /\ IF receiver = "recv_msg"
            THEN decoded = "data" /\ data = message
            ELSE decoded = "Response" /\ states_data = message

\* C26: once every byte of the one Response the simulation sends has been
\* returned by recv, the receive routine of reset and step is not left
\* waiting in recv for bytes that will never come.
C26_TurnEventuallyReturns ==
  (receiver \in {"build", "package", "script"} /\ trailer = <<>> /\ ~peer_closed
     /\ pending = <<>>) => rx_pc # "recv"

\* C31: the generator is changed only by set_seed, which restarts it from the
\* seed given, and by a reset that was given no seed, which makes one draw; a
\* step, a close and a reset given a seed leave it as it is. The seed a reset
\* draws is the value fixed by the session seed and the number of draws made
\* since the generator was seeded, so that two sessions seeded alike and
\* called alike put the same seeds in their Init requests.
C31_SeedDeterminism ==
  [][ /\ random_generator' # random_generator =>
           \/ /\ pc = "idle" /\ pc' = "idle"
              /\ random_generator'.seed \in SessionSeeds
              /\ random_generator'.draws = 0
           \/ /\ op = "reset" /\ pc = "reset_send" /\ seed = <<>>
              /\ random_generator' = [random_generator EXCEPT !.draws = @ + 1]
      /\ (op = "reset" /\ pc = "reset_send" /\ pc' # pc /\ seed = <<>>) =>
           /\ random_generator'.draws = random_generator.draws + 1
           /\ Value(request', "seed") =
                Draw([seed |-> random_generator.seed, draws |-> random_generator.draws])
      /\ (op = "reset" /\ pc = "reset_send" /\ pc' # pc /\ seed # <<>>) =>
           Value(request', "seed") = seed[1]
    ]_vars

\* a reset given no seed has sent the second value of the generator, which
\* differs from the first
C31_Witness ==
  /\ op = "reset"
  /\ pc = "reset_recv"
  /\ seed = <<>>
  /\ random_generator.draws = 2
  /\ Value(request, "seed") = Draw([seed |-> random_generator.seed, draws |-> 1])
  /\ Value(request, "seed") # Draw([seed |-> random_generator.seed, draws |-> 0])
  /\ toSim = << request >>

=============================================================================
